---- MODULE Spec2Model ----
(***************************************************************************)
(* A model of servicenow.py: the DateTime / DateTimeRange value types, the *)
(* ServiceNow connection (base URL, session cookie, last request and       *)
(* response), and the Table / Query operations built on it.                *)
(*                                                                         *)
(* Three specifications share the variables:                               *)
(*   RangeSpec  DateTimeRange.fromDate / overlapSeconds / overlapsWith      *)
(*   UrlSpec    ServiceNow.__init__ / ServiceNow.url / Table.__init__       *)
(*   Spec       requests through one connection: Table.get, insert,         *)
(*              update, delete, getChoices, Query.run, ServiceNow.connect   *)
(*                                                                         *)
(* Strings are sequences of one-character strings.  A DateTime is the      *)
(* number of seconds since 1970-01-01 00:00:00 UTC (the class normalises   *)
(* every value to UTC and compares by instant).                            *)
(***************************************************************************)
EXTENDS Integers, Sequences, FiniteSets, TLC

VARIABLES
    \* ---- DateTimeRange ----
    r1,          \* the range overlapSeconds is called on (self): <<start, end>>
    r2,          \* the range passed as `other`
    day1,        \* the date r1 was built from by fromDate, or NoDate
    secs,        \* the value last returned by overlapSeconds
    overlaps,    \* the value last returned by overlapsWith
    rpc,         \* the DateTimeRange operation last carried out
    \* ---- ServiceNow.__init__ / url / Table.__init__ ----
    instance,    \* the instance string given to the constructor
    baseurl,     \* ServiceNow.baseurl
    stuff,       \* the argument of the last url() call
    urlres,      \* the value last returned by url()
    tablename,   \* Table.name of the last Table constructed
    tableurl,    \* Table.tableurl of the last Table constructed
    upc,         \* the URL operation last carried out
    \* ---- requests through one connection ----
    cookies,     \* ServiceNow.cookies: the JSESSIONID to send, or None
    jsessionid,  \* ServiceNow.jsessionid
    lastRequest, \* ServiceNow.lastRequest
    lastResponse,\* ServiceNow.lastResponse
    wire,        \* what requests.request was last given: the request and its cookie
    served,      \* the JSESSIONID of each response received so far, oldest first
    call,        \* the operation last called, with its arguments
    outcome      \* how that call ended: a returned value or a raised error

rangeVars == <<r1, r2, day1, secs, overlaps, rpc>>
urlVars   == <<instance, baseurl, stuff, urlres, tablename, tableurl, upc>>
connVars  == <<cookies, jsessionid, lastRequest, lastResponse, wire, served, call, outcome>>
vars      == <<r1, r2, day1, secs, overlaps, rpc,
               instance, baseurl, stuff, urlres, tablename, tableurl, upc,
               cookies, jsessionid, lastRequest, lastResponse, wire, served, call, outcome>>

(***************************************************************************)
(* Bounds of the model.                                                    *)
(***************************************************************************)
MaxInstant     == 3   \* ad-hoc range endpoints are instants 0..MaxInstant
NumYears       == 2   \* fromDate is applied to every day of this many years
MaxInstanceLen == 3   \* characters of an instance string after its scheme
MaxPathLen     == 2   \* characters of a url() argument
MaxRequests    == 3   \* requests issued through the connection
MaxRecs        == 2   \* records in a decoded result list

(***************************************************************************)
(* Strings.                                                                *)
(***************************************************************************)
SeqsUpTo(S, n) == UNION {[1..k -> S] : k \in 0..n}

\* str.startswith
StartsWith(s, p) == Len(s) >= Len(p) /\ SubSeq(s, 1, Len(p)) = p

\* str.endswith
EndsWith(s, p) == Len(s) >= Len(p) /\ SubSeq(s, Len(s) - Len(p) + 1, Len(s)) = p

\* str.find(c): the index of the first c, counted from 0, or -1
Find(s, c) ==
    IF \E i \in 1..Len(s) : s[i] = c
    THEN (CHOOSE i \in 1..Len(s) : s[i] = c /\ \A j \in 1..(i-1) : s[j] # c) - 1
    ELSE -1

\* sep.join(parts)
RECURSIVE Join(_, _)
Join(sep, parts) ==
    IF Len(parts) = 0 THEN <<>>
    ELSE IF Len(parts) = 1 THEN parts[1]
    ELSE parts[1] \o sep \o Join(sep, Tail(parts))

SCHEME     == <<"h","t","t","p","s",":","/","/">>
DOMAIN_SFX == <<".","s","e","r","v","i","c","e","-","n","o","w",".","c","o","m">>
TABLE_API  == <<"/","a","p","i","/","n","o","w","/","v","1","/","t","a","b","l","e","/">>
SLASH      == <<"/">>

(***************************************************************************)
(* ServiceNow.__init__: the base URL computed from the instance string.    *)
(***************************************************************************)
ServiceNow_init(inst) ==
    LET base0 == IF StartsWith(inst, SCHEME) THEN inst ELSE SCHEME \o inst
        base1 == IF Find(inst, ".") < 0 THEN base0 \o DOMAIN_SFX ELSE base0
    IN  IF EndsWith(base1, SLASH) THEN SubSeq(base1, 1, Len(base1) - 1) ELSE base1

(***************************************************************************)
(* ServiceNow.url and Table.__init__.                                      *)
(***************************************************************************)
url_AlwaysSlash(base, s) == base \o SLASH \o s

url(base, s) ==
    LET result == IF ~StartsWith(s, SLASH) THEN base \o SLASH ELSE base
    IN  result \o s

Table_init(base, name) == url(base, TABLE_API \o name)

(***************************************************************************)
(* Calendar arithmetic behind datetime / pytz.                             *)
(***************************************************************************)
Years == 2015..(2015 + NumYears - 1)

IsLeap(y) == (y % 4 = 0 /\ y % 100 # 0) \/ y % 400 = 0

DaysInMonth(y, m) ==
    IF m = 2 THEN (IF IsLeap(y) THEN 29 ELSE 28)
    ELSE IF m \in {4, 6, 9, 11} THEN 30 ELSE 31

\* the datetime.date values fromDate is applied to
Dates == {d \in [year : Years, month : 1..12, day : 1..31] :
             d.day <= DaysInMonth(d.year, d.month)}

NoDate == [year |-> 0, month |-> 0, day |-> 0]

\* days from 1970-01-01 to the proleptic Gregorian date y-m-d
DaysFromCivil(y, m, d) ==
    LET yy  == IF m <= 2 THEN y - 1 ELSE y
        era == yy \div 400
        yoe == yy - era * 400
        mp  == (m + 9) % 12
        doy == (153 * mp + 2) \div 5 + d - 1
        doe == yoe * 365 + yoe \div 4 - yoe \div 100 + doy
    IN  era * 146097 + doe - 719468

\* the Gregorian date that is z days after 1970-01-01
CivilFromDays(z) ==
    LET zz  == z + 719468
        era == zz \div 146097
        doe == zz - era * 146097
        yoe == (doe - doe \div 1460 + doe \div 36524 - doe \div 146096) \div 365
        doy == doe - (365 * yoe + yoe \div 4 - yoe \div 100)
        mp  == (5 * doy + 2) \div 153
        d   == doy - (153 * mp + 2) \div 5 + 1
        m   == IF mp < 10 THEN mp + 3 ELSE mp - 9
        y   == yoe + era * 400 + (IF m <= 2 THEN 1 ELSE 0)
    IN  [year |-> y, month |-> m, day |-> d]

\* 0 = Sunday ... 6 = Saturday (1970-01-01 was a Thursday)
Weekday(y, m, d) == (DaysFromCivil(y, m, d) + 4) % 7

\* TZ_LOCAL = US/Eastern: daylight time runs from the second Sunday of March,
\* 02:00, to the first Sunday of November, 02:00 (wall clock).
DstStartDay(y) == CHOOSE d \in 8..14 : Weekday(y, 3, d) = 0
DstEndDay(y)   == CHOOSE d \in 1..7  : Weekday(y, 11, d) = 0

\* TZ_LOCAL.localize(dt) with pytz's default is_dst=False: a wall-clock time
\* that is ambiguous or does not exist is taken as standard time.
IsDaylight(f) ==
    LET afterStart == \/ f.month > 3
                      \/ f.month = 3 /\ f.day > DstStartDay(f.year)
                      \/ f.month = 3 /\ f.day = DstStartDay(f.year) /\ f.hour >= 3
        beforeEnd  == \/ f.month < 11
                      \/ f.month = 11 /\ f.day < DstEndDay(f.year)
                      \/ f.month = 11 /\ f.day = DstEndDay(f.year) /\ f.hour < 1
    IN  afterStart /\ beforeEnd

\* seconds to add to a US/Eastern wall-clock time to get UTC
LocalToUtcOffset(f) == IF IsDaylight(f) THEN 4 * 3600 ELSE 5 * 3600

\* the instant of naive fields taken as UTC
FieldsToInstant(f) ==
    DaysFromCivil(f.year, f.month, f.day) * 86400
        + f.hour * 3600 + f.minute * 60 + f.second

\* the UTC fields of an instant (what super().__new__ is given)
InstantToFields(t) ==
    LET c   == CivilFromDays(t \div 86400)
        sod == t % 86400
    IN  [year |-> c.year, month |-> c.month, day |-> c.day,
         hour |-> sod \div 3600, minute |-> (sod % 3600) \div 60, second |-> sod % 60]

(***************************************************************************)
(* strftime / strptime with DATE_FORMAT and DATETIME_FORMAT.               *)
(***************************************************************************)
DigitChars == <<"0","1","2","3","4","5","6","7","8","9">>

DigitValue(c) == (CHOOSE i \in 1..10 : DigitChars[i] = c) - 1

RECURSIVE Digits(_, _)
Digits(n, width) ==
    IF width = 0 THEN <<>>
    ELSE Digits(n \div 10, width - 1) \o <<DigitChars[(n % 10) + 1]>>

RECURSIVE ParseInt(_)
ParseInt(s) ==
    IF Len(s) = 0 THEN 0
    ELSE ParseInt(SubSeq(s, 1, Len(s) - 1)) * 10 + DigitValue(s[Len(s)])

\* ymd.strftime(DATE_FORMAT)
strftime_date(ymd) ==
    Digits(ymd.year, 4) \o <<"-">> \o Digits(ymd.month, 2) \o <<"-">> \o Digits(ymd.day, 2)

MIDNIGHT == <<" ","0","0",":","0","0",":","0","0">>

\* datetime.datetime.strptime(s, DATETIME_FORMAT) of a well-formed string
strptime(s) ==
    [year   |-> ParseInt(SubSeq(s, 1, 4)),   month  |-> ParseInt(SubSeq(s, 6, 7)),
     day    |-> ParseInt(SubSeq(s, 9, 10)),  hour   |-> ParseInt(SubSeq(s, 12, 13)),
     minute |-> ParseInt(SubSeq(s, 15, 16)), second |-> ParseInt(SubSeq(s, 18, 19))]

(***************************************************************************)
(* DateTime.__new__.                                                       *)
(***************************************************************************)
\* DateTime(arg, local) for a str argument
DateTime_str(arg, local) ==
    LET full == IF Len(arg) = 10 THEN arg \o MIDNIGHT ELSE arg
        dt   == strptime(full)
        utc  == IF local THEN FieldsToInstant(dt) + LocalToUtcOffset(dt)
                         ELSE FieldsToInstant(dt)
    IN  FieldsToInstant(InstantToFields(utc))

\* DateTime(arg) for a datetime argument that carries a time zone:
\* arg.astimezone(TZ_UTC), rebuilt from its fields
DateTime_aware(arg) == FieldsToInstant(InstantToFields(arg))

(***************************************************************************)
(* DateTimeRange.                                                          *)
(***************************************************************************)
Max(x, y) == IF x >= y THEN x ELSE y
Min(x, y) == IF x <= y THEN x ELSE y

fromDate(ymd, local) ==
    LET t0 == DateTime_str(strftime_date(ymd), local)
        almost24hours == 24 * 60 * 60 - 1
        t1 == DateTime_aware(t0 + almost24hours)
    IN  <<t0, t1>>

overlapSeconds_NoGuard(self, other) ==
    Min(self[2], other[2]) - Max(self[1], other[1])

overlapSeconds(self, other) ==
    LET latest_start == Max(self[1], other[1])
        earliest_end == Min(self[2], other[2])
    IN  IF latest_start >= earliest_end THEN 0
        ELSE earliest_end - latest_start

overlapsWith(self, other) == overlapSeconds(self, other) > 0

Instants == 0..MaxInstant
AdHocRanges == Instants \X Instants

RangeInit ==
    /\ r1 \in AdHocRanges
    /\ r2 \in AdHocRanges
    /\ day1 = NoDate
    /\ secs = 0
    /\ overlaps = FALSE
    /\ rpc = "new"

\* r1 = DateTimeRange.fromDate(ymd, local)
FromDate ==
    /\ rpc = "new"
    /\ \E ymd \in Dates, local \in BOOLEAN :
          /\ r1' = fromDate(ymd, local)
          /\ day1' = ymd
    /\ rpc' = "fromDate"
    /\ UNCHANGED <<r2, secs, overlaps>>

\* the caller passes the range itself as `other`
SameRange ==
    /\ rpc \in {"new", "fromDate"}
    /\ r2' = r1
    /\ rpc' = "same"
    /\ UNCHANGED <<r1, day1, secs, overlaps>>

\* secs = r1.overlapSeconds(r2)
OverlapSeconds ==
    /\ rpc # "overlapSeconds"
    /\ secs' = overlapSeconds(r1, r2)
    /\ rpc' = "overlapSeconds"
    /\ UNCHANGED <<r1, r2, day1, overlaps>>

\* overlaps = r1.overlapsWith(r2)
OverlapsWith ==
    /\ rpc # "overlapsWith"
    /\ overlaps' = overlapsWith(r1, r2)
    /\ rpc' = "overlapsWith"
    /\ UNCHANGED <<r1, r2, day1, secs>>

(***************************************************************************)
(* Values exchanged with the service.  A JSON mapping is a set of          *)
(* <<key, value>> pairs of strings; a JSON list is a sequence of mappings. *)
(***************************************************************************)
None == "None"

S_sys_id   == <<"s","y","s","_","i","d">>
S_name     == <<"n","a","m","e">>
S_value    == <<"v","a","l","u","e">>
S_label    == <<"l","a","b","e","l">>
S_inactive == <<"i","n","a","c","t","i","v","e">>
S_true     == <<"t","r","u","e">>
S_false    == <<"f","a","l","s","e">>
S_comma    == <<",">>

HasKey(m, k) == \E p \in m : p[1] = k
Lookup(m, k) == (CHOOSE p \in m : p[1] = k)[2]

\* dict[k] = v
Assign(m, k, v) == {p \in m : p[1] # k} \cup {<<k, v>>}

\* an optional string argument: None, or a string (possibly empty)
NoneStr  == [some |-> FALSE, s |-> <<>>]
Some(s)  == [some |-> TRUE, s |-> s]
\* Python truth of an optional string
TruthyStr(o) == o.some /\ o.s # <<>>

\* the `fields` argument: None, a str, or a sequence of field names
FieldsNone     == [kind |-> "None", str |-> <<>>, seq |-> <<>>]
FieldsStr(x)   == [kind |-> "str",  str |-> x,    seq |-> <<>>]
FieldsSeq(xs)  == [kind |-> "seq",  str |-> <<>>, seq |-> xs]
\* Python truth of a `fields` argument
TruthyFields(f) == (f.kind = "str" /\ f.str # <<>>) \/ (f.kind = "seq" /\ f.seq # <<>>)
\* fields if isinstance(fields, str) else ','.join(fields)
JoinFields(f) == IF f.kind = "str" THEN f.str ELSE Join(S_comma, f.seq)

\* the decoded JSON body of a response: its 'result' member is absent, a
\* mapping or a list
ErrorBody     == [hasResult |-> FALSE, isList |-> FALSE, mapping |-> {}, list |-> <<>>]
MapBody(m)    == [hasResult |-> TRUE,  isList |-> FALSE, mapping |-> m,  list |-> <<>>]
ListBody(l)   == [hasResult |-> TRUE,  isList |-> TRUE,  mapping |-> {}, list |-> l]

NoResponse == [present |-> FALSE, status |-> 0, cookie |-> None, body |-> ErrorBody]
Response(st, ck, b) == [present |-> TRUE, status |-> st, cookie |-> ck, body |-> b]

NoRequest == [method |-> None, url |-> <<>>, hasParams |-> FALSE, params |-> {}]

\* how a call ended
NoOutcome ==
    [kind |-> "none", error |-> "", vtype |-> "", scalar |-> <<>>, mapping |-> {},
     list |-> <<>>, body |-> ErrorBody]
ReturnNone ==
    [kind |-> "return", error |-> "", vtype |-> "None", scalar |-> <<>>, mapping |-> {},
     list |-> <<>>, body |-> ErrorBody]
ReturnSelf ==
    [kind |-> "return", error |-> "", vtype |-> "self", scalar |-> <<>>, mapping |-> {},
     list |-> <<>>, body |-> ErrorBody]
ReturnScalar(x) ==
    [kind |-> "return", error |-> "", vtype |-> "scalar", scalar |-> x, mapping |-> {},
     list |-> <<>>, body |-> ErrorBody]
ReturnMapping(m) ==
    [kind |-> "return", error |-> "", vtype |-> "mapping", scalar |-> <<>>, mapping |-> m,
     list |-> <<>>, body |-> ErrorBody]
ReturnList(l) ==
    [kind |-> "return", error |-> "", vtype |-> "list", scalar |-> <<>>, mapping |-> {},
     list |-> l, body |-> ErrorBody]
\* an exception of class e; a ServiceNowError's message holds the decoded body
Raise(e, b) ==
    [kind |-> "raise", error |-> e, vtype |-> "", scalar |-> <<>>, mapping |-> {},
     list |-> <<>>, body |-> b]

Is2xx(st) == 200 <= st /\ st <= 299

(***************************************************************************)
(* ServiceNow._setSession and ServiceNow._request.                         *)
(***************************************************************************)
setSession_Always(stored, received) == received

\* the cookie stored after a response: `if jsessionid:` keeps the old one
\* when the response carries none
setSession(stored, received) ==
    IF received # None THEN received ELSE stored

\* self.lastResponse = requests.request(...)
StoreResponse(old, resp) == resp

\* method.upper()
Upper(m) ==
    CASE m = "get" -> "GET" [] m = "post" -> "POST"
      [] m = "put" -> "PUT" [] m = "delete" -> "DELETE" [] OTHER -> m

\* One call of _request.  reply.ok is FALSE when requests.request raises
\* (no response arrives): lastRequest is already set, nothing else changes.
Request(method, u, sys_id, hasParams, params, reply) ==
    LET url2 == IF sys_id # <<>> THEN u \o SLASH \o sys_id ELSE u
        req  == [method |-> Upper(method), url |-> url2,
                 hasParams |-> hasParams, params |-> params]
    IN  /\ lastRequest' = req
        /\ wire' = [request |-> req, cookie |-> cookies,
                    completed |-> reply.ok, response |-> reply.resp]
        /\ IF reply.ok
           THEN /\ lastResponse' = StoreResponse(lastResponse, reply.resp)
                /\ served' = Append(served, reply.resp.cookie)
                /\ cookies' = setSession(cookies, reply.resp.cookie)
                /\ jsessionid' = setSession(jsessionid, reply.resp.cookie)
           ELSE UNCHANGED <<lastResponse, served, cookies, jsessionid>>

(***************************************************************************)
(* Table.get, Table.insert: the outcome computed from the response.        *)
(***************************************************************************)
\* self.response.json()['result']: a KeyError when the body has no 'result'
JsonResult(resp) ==
    IF ~resp.body.hasResult THEN Raise("KeyError", ErrorBody)
    ELSE IF resp.body.isList THEN ReturnList(resp.body.list)
    ELSE ReturnMapping(resp.body.mapping)

Table_get_No404(resp) ==
    IF resp.status = 401 THEN Raise("ServiceNowError", resp.body)
    ELSE JsonResult(resp)

Table_get(resp) ==
    IF resp.status = 401 THEN Raise("ServiceNowError", resp.body)
    ELSE IF resp.status = 404 THEN ReturnNone
    ELSE JsonResult(resp)

\* the sysparm_fields parameter insert sends
Table_insert_params(fields) ==
    LET sysparm_fields == IF TruthyFields(fields) THEN JoinFields(fields) ELSE S_sys_id
    IN  {<<"sysparm_fields", sysparm_fields>>}

Table_insert(fields, resp) ==
    IF ~Is2xx(resp.status) THEN Raise("ServiceNowError", resp.body)
    ELSE LET result == JsonResult(resp)
         IN  IF result.kind = "raise" THEN result
             ELSE IF TruthyFields(fields) THEN result
             ELSE IF result.vtype = "mapping" /\ HasKey(result.mapping, S_sys_id)
                  THEN ReturnScalar(Lookup(result.mapping, S_sys_id))
                  ELSE Raise("KeyError", ErrorBody)

(***************************************************************************)
(* Query: the builder state and run().                                     *)
(***************************************************************************)
RECURSIVE IntToStr(_)
\* str(n) for n >= 0
IntToStr(n) ==
    IF n < 10 THEN <<DigitChars[n + 1]>>
    ELSE IntToStr(n \div 10) \o <<DigitChars[(n % 10) + 1]>>

\* an optional int argument
NoneInt    == [some |-> FALSE, n |-> 0]
SomeInt(n) == [some |-> TRUE, n |-> n]

\* Query.__init__: setQuery, setFields, setLimit, setRefLinks
Query_init(query, fields, limit, refLinks) ==
    [query  |-> query,
     fields |-> IF TruthyFields(fields) THEN Some(JoinFields(fields)) ELSE NoneStr,
     limit  |-> IF limit.some /\ limit.n # 0 THEN Some(IntToStr(limit.n)) ELSE NoneStr,
     exclude_ref_links |-> IF refLinks THEN Some(S_false) ELSE Some(S_true)]

\* the request parameters run() assembles
Query_params(q) ==
    (IF TruthyStr(q.limit)  THEN {<<"sysparm_limit",  q.limit.s>>}  ELSE {})
      \cup (IF TruthyStr(q.fields) THEN {<<"sysparm_fields", q.fields.s>>} ELSE {})
      \cup (IF TruthyStr(q.query)  THEN {<<"sysparm_query",  q.query.s>>}  ELSE {})
      \cup (IF TruthyStr(q.exclude_ref_links)
            THEN {<<"sysparm_exclude_reference_link", q.exclude_ref_links.s>>} ELSE {})

Query_run_RaiseOnError(resp) ==
    IF ~Is2xx(resp.status) THEN Raise("ServiceNowError", resp.body)
    ELSE JsonResult(resp)

\* what run() returns for a response
Query_run(resp) ==
    IF resp.status # 200 THEN ReturnList(<<>>)
    ELSE JsonResult(resp)

(***************************************************************************)
(* Table.getChoices and ServiceNow.connect, from what run() gave.          *)
(***************************************************************************)
RECURSIVE ChoicesOf(_, _, _)
\* the loop `for rec in recs` over recs[i..], starting from the dict `result`
ChoicesOf(recs, inactive, result) ==
    IF recs = <<>> THEN result
    ELSE LET rec == Head(recs)
         IN  IF inactive /\ Lookup(rec, S_inactive) = S_true
             THEN ChoicesOf(Tail(recs), inactive, result)
             ELSE ChoicesOf(Tail(recs), inactive,
                            Assign(result, Lookup(rec, S_value), Lookup(rec, S_label)))

\* ran is how sys_choice.query(query_str).run() ended
Table_getChoices(inactive, ran) ==
    IF ran.kind = "raise" THEN ran
    ELSE LET result == ChoicesOf(ran.list, inactive, {})
         IN  IF result = {}
             THEN Raise("AttributeError", ErrorBody)  \* self.session.logLastRequest()
             ELSE ReturnMapping(result)

\* ran is how sys_user.query('user_name=...').run() ended
ServiceNow_connect(ran) ==
    IF ran.kind = "raise" THEN Raise("ServiceNowError", ErrorBody)
    ELSE IF Len(ran.list) # 1 THEN Raise("ServiceNowError", ErrorBody)
    ELSE ReturnSelf

(***************************************************************************)
(* The calls made through one connection, and what the service may answer. *)
(***************************************************************************)
SessionIds   == {"s1", "s2"}          \* JSESSIONID values (non-empty)
CookieValues == SessionIds \cup {None}

\* the response statuses the service gives; a `full` run takes them all
Statuses(full) == IF full THEN {200, 201, 299, 401, 403, 404, 500} ELSE {200, 404}

S_dev        == <<"d","e","v">>
S_inc        == <<"i","n","c">>
S_sys_choice == <<"s","y","s","_","c","h","o","i","c","e">>
S_sys_user   == <<"s","y","s","_","u","s","e","r">>
S_admin      == <<"a","d","m","i","n">>
S_state      == <<"s","t","a","t","e">>
S_id1        == <<"1">>
S_id2        == <<"2">>

SysIds(full) == IF full THEN {<<>>, S_id1, S_id2} ELSE {S_id1}

\* records of the table
Record1 == {<<S_sys_id, S_id1>>}
Record2 == {<<S_sys_id, S_id2>>, <<S_name, <<"x">>>>}
Records(full) == IF full THEN {Record1, Record2} ELSE {Record1}

\* records of sys_choice: value, label, inactive
ChoiceRec(v, l, i) == {<<S_value, v>>, <<S_label, l>>, <<S_inactive, i>>}
ChoiceRecs(full) ==
    IF full
    THEN {ChoiceRec(S_id1, <<"n","e","w">>, S_false), ChoiceRec(S_id1, <<"o","l","d">>, S_true),
          ChoiceRec(S_id2, <<"o","p","e","n">>, S_false), ChoiceRec(S_id2, <<"s","h","u","t">>, S_true)}
    ELSE {ChoiceRec(S_id1, <<"n","e","w">>, S_false)}

ListsOf(R, full) == IF full THEN SeqsUpTo(R, MaxRecs) ELSE SeqsUpTo(R, 1)

\* The bodies the service sends.  A response with a 2xx status carries a
\* 'result'; any other status carries an error body, which has no 'result'
\* unless the service adds one.
MappingBodies(st, full) ==
    IF Is2xx(st) THEN {MapBody(m) : m \in Records(full)}
    ELSE IF full THEN {ErrorBody, MapBody(Record1)} ELSE {ErrorBody}

ListBodies(st, R, full) ==
    IF Is2xx(st) THEN {ListBody(l) : l \in ListsOf(R, full)} ELSE {ErrorBody}

NetworkFailure == [ok |-> FALSE, resp |-> NoResponse]

Answers(bodies) ==
    {[ok |-> TRUE, resp |-> Response(b[1], ck, b[2])] : b \in bodies, ck \in CookieValues}

MappingReplies(full) ==
    Answers(UNION {{<<st, b>> : b \in MappingBodies(st, full)} : st \in Statuses(full)})
        \cup {NetworkFailure}

ListReplies(R, full) ==
    Answers(UNION {{<<st, b>> : b \in ListBodies(st, R, full)} : st \in Statuses(full)})
        \cup {NetworkFailure}

PlainReplies(full) ==
    Answers({<<st, ErrorBody>> : st \in Statuses(full)}) \cup {NetworkFailure}

\* the `fields` arguments tried
FieldsArgs(full) ==
    IF full
    THEN {FieldsNone, FieldsStr(<<>>), FieldsStr(S_name), FieldsSeq(<<>>),
          FieldsSeq(<<S_name>>), FieldsSeq(<<S_sys_id, S_name>>)}
    ELSE {FieldsNone, FieldsSeq(<<S_name>>)}

QueryArgs(full) ==
    IF full THEN {NoneStr, Some(<<>>), Some(<<"a","c","t","i","v","e","=","t","r","u","e">>)} ELSE {NoneStr}

LimitArgs(full) ==
    IF full THEN {NoneInt, SomeInt(0), SomeInt(10)} ELSE {NoneInt}

EmptyQuery == Query_init(NoneStr, FieldsNone, NoneInt, FALSE)

NoCall ==
    [op |-> "none", sys_id |-> <<>>, flag |-> FALSE, fields |-> FieldsNone,
     query |-> EmptyQuery]

\* an exception raised by requests.request passes through the caller
Failed == Raise("RequestException", ErrorBody)

\* Table.get(sys_id, refLinks)
Get(n, full) ==
    /\ Len(served) < n
    /\ \E sys_id \in SysIds(full), refLinks \in BOOLEAN, reply \in MappingReplies(full) :
          LET parms == {<<"sysparm_exclude_reference_link",
                          IF refLinks THEN S_false ELSE S_true>>}
          IN  /\ Request("GET", tableurl, sys_id, TRUE, parms, reply)
              /\ call' = [NoCall EXCEPT !.op = "get", !.sys_id = sys_id, !.flag = refLinks]
              /\ outcome' = IF reply.ok THEN Table_get(reply.resp) ELSE Failed

\* Table.insert(record, fields)
Insert(n, full) ==
    /\ Len(served) < n
    /\ \E fields \in FieldsArgs(full), reply \in MappingReplies(full) :
          /\ Request("POST", tableurl, <<>>, TRUE, Table_insert_params(fields), reply)
          /\ call' = [NoCall EXCEPT !.op = "insert", !.fields = fields]
          /\ outcome' = IF reply.ok THEN Table_insert(fields, reply.resp) ELSE Failed

\* Table.update(sys_id, fieldvalues)
Update(n, full) ==
    /\ Len(served) < n
    /\ \E sys_id \in SysIds(full), reply \in PlainReplies(full) :
          /\ Request("PUT", tableurl, sys_id, FALSE, {}, reply)
          /\ call' = [NoCall EXCEPT !.op = "update", !.sys_id = sys_id]
          /\ outcome' = IF reply.ok THEN ReturnNone ELSE Failed

\* Table.delete(sys_id)
Delete(n, full) ==
    /\ Len(served) < n
    /\ \E sys_id \in SysIds(full), reply \in PlainReplies(full) :
          /\ Request("DELETE", tableurl, sys_id, FALSE, {}, reply)
          /\ call' = [NoCall EXCEPT !.op = "delete", !.sys_id = sys_id]
          /\ outcome' = IF reply.ok THEN ReturnNone ELSE Failed

\* Table.query(query, fields, limit).setRefLinks(refLinks).run()
Run(n, full) ==
    /\ Len(served) < n
    /\ \E query \in QueryArgs(full), fields \in FieldsArgs(full), limit \in LimitArgs(full),
          refLinks \in BOOLEAN, reply \in ListReplies(Records(full), full) :
          LET q == Query_init(query, fields, limit, refLinks)
          IN  /\ Request("GET", tableurl, <<>>, TRUE, Query_params(q), reply)
              /\ call' = [NoCall EXCEPT !.op = "run", !.query = q]
              /\ outcome' = IF reply.ok THEN Query_run(reply.resp) ELSE Failed

\* Table.getChoices(element, inactive)
GetChoices(n, full) ==
    /\ Len(served) < n
    /\ \E inactive \in BOOLEAN, reply \in ListReplies(ChoiceRecs(full), full) :
          LET query_str == <<"n","a","m","e","=">> \o tablename \o <<"^","e","l","e","m","e","n","t","=">> \o S_state
              q == Query_init(Some(query_str), FieldsNone, NoneInt, FALSE)
          IN  /\ Request("GET", Table_init(baseurl, S_sys_choice), <<>>, TRUE,
                         Query_params(q), reply)
              /\ call' = [NoCall EXCEPT !.op = "getChoices", !.flag = inactive, !.query = q]
              /\ outcome' = IF reply.ok
                            THEN Table_getChoices(inactive, Query_run(reply.resp))
                            ELSE Failed

\* ServiceNow.connect()
Connect(n, full) ==
    /\ Len(served) < n
    /\ \E reply \in ListReplies(Records(full), full) :
          LET q == Query_init(Some(<<"u","s","e","r","_","n","a","m","e","=">> \o S_admin), FieldsNone, NoneInt, FALSE)
          IN  /\ Request("GET", Table_init(baseurl, S_sys_user), <<>>, TRUE,
                         Query_params(q), reply)
              /\ call' = [NoCall EXCEPT !.op = "connect", !.query = q]
              /\ outcome' = ServiceNow_connect(IF reply.ok THEN Query_run(reply.resp)
                                                           ELSE Failed)

\* the connection right after ServiceNow(instance, ...) and sn.table(name)
ConnInit ==
    /\ cookies = None /\ jsessionid = None
    /\ lastRequest = NoRequest /\ lastResponse = NoResponse
    /\ wire = [request |-> NoRequest, cookie |-> None, completed |-> FALSE,
               response |-> NoResponse]
    /\ served = <<>>
    /\ call = NoCall
    /\ outcome = NoOutcome

ConnUrls ==
    /\ instance = S_dev
    /\ baseurl = ServiceNow_init(S_dev)
    /\ stuff = <<>> /\ urlres = <<>>
    /\ tablename = S_inc
    /\ tableurl = Table_init(ServiceNow_init(S_dev), S_inc)
    /\ upc = "table"

(***************************************************************************)
(* Constructing a connection and asking it for URLs.                       *)
(***************************************************************************)
\* instance strings: a host that starts with a letter, then up to
\* MaxInstanceLen more characters, with or without the scheme in front
InstanceChars == {"a", ".", "/"}
Instances ==
    LET names == {<<"a">> \o t : t \in SeqsUpTo(InstanceChars, MaxInstanceLen)}
    IN  names \cup {SCHEME \o n : n \in names}

Paths == SeqsUpTo({"/", "t"}, MaxPathLen) \cup {TABLE_API \o S_inc}
TableNames == {S_inc, S_sys_choice}

\* sn = ServiceNow(instance, username, password)
Construct ==
    /\ upc = "none"
    /\ \E inst \in Instances :
          /\ instance' = inst
          /\ baseurl' = ServiceNow_init(inst)
    /\ upc' = "init"
    /\ UNCHANGED <<stuff, urlres, tablename, tableurl>>

\* sn.url(stuff)
Url ==
    /\ upc # "none"
    /\ \E s \in Paths :
          /\ stuff' = s
          /\ urlres' = url(baseurl, s)
    /\ upc' = "url"
    /\ UNCHANGED <<instance, baseurl, tablename, tableurl>>

\* sn.table(name)
NewTable ==
    /\ upc # "none"
    /\ \E name \in TableNames :
          /\ tablename' = name
          /\ tableurl' = Table_init(baseurl, name)
    /\ upc' = "table"
    /\ UNCHANGED <<instance, baseurl, stuff, urlres>>

UrlIdle ==
    /\ instance = <<>> /\ baseurl = <<>> /\ stuff = <<>> /\ urlres = <<>>
    /\ tablename = <<>> /\ tableurl = <<>> /\ upc = "none"

RangeIdle ==
    /\ r1 = <<0, 0>> /\ r2 = <<0, 0>> /\ day1 = NoDate
    /\ secs = 0 /\ overlaps = FALSE /\ rpc = "none"

RangeNext ==
    \/ FromDate /\ UNCHANGED urlVars /\ UNCHANGED connVars
    \/ SameRange /\ UNCHANGED urlVars /\ UNCHANGED connVars
    \/ OverlapSeconds /\ UNCHANGED urlVars /\ UNCHANGED connVars
    \/ OverlapsWith /\ UNCHANGED urlVars /\ UNCHANGED connVars

RangeSpecInit == RangeInit /\ UrlIdle /\ ConnInit
RangeSpec == RangeSpecInit /\ [][RangeNext]_vars

UrlNext ==
    \/ Construct /\ UNCHANGED rangeVars /\ UNCHANGED connVars
    \/ Url /\ UNCHANGED rangeVars /\ UNCHANGED connVars
    \/ NewTable /\ UNCHANGED rangeVars /\ UNCHANGED connVars

UrlSpecInit == RangeIdle /\ UrlIdle /\ ConnInit
UrlSpec == UrlSpecInit /\ [][UrlNext]_vars

\* a connection used for up to MaxRequests requests
Init == RangeIdle /\ ConnUrls /\ ConnInit

Next ==
    \/ Get(MaxRequests, FALSE) /\ UNCHANGED rangeVars /\ UNCHANGED urlVars
    \/ Insert(MaxRequests, FALSE) /\ UNCHANGED rangeVars /\ UNCHANGED urlVars
    \/ Update(MaxRequests, FALSE) /\ UNCHANGED rangeVars /\ UNCHANGED urlVars
    \/ Delete(MaxRequests, FALSE) /\ UNCHANGED rangeVars /\ UNCHANGED urlVars
    \/ Run(MaxRequests, FALSE) /\ UNCHANGED rangeVars /\ UNCHANGED urlVars
    \/ GetChoices(MaxRequests, FALSE) /\ UNCHANGED rangeVars /\ UNCHANGED urlVars
    \/ Connect(MaxRequests, FALSE) /\ UNCHANGED rangeVars /\ UNCHANGED urlVars

Spec == Init /\ [][Next]_vars

\* one call on a new connection, with every argument and every answer
CallNext ==
    \/ Get(1, TRUE) /\ UNCHANGED rangeVars /\ UNCHANGED urlVars
    \/ Insert(1, TRUE) /\ UNCHANGED rangeVars /\ UNCHANGED urlVars
    \/ Update(1, TRUE) /\ UNCHANGED rangeVars /\ UNCHANGED urlVars
    \/ Delete(1, TRUE) /\ UNCHANGED rangeVars /\ UNCHANGED urlVars
    \/ Run(1, TRUE) /\ UNCHANGED rangeVars /\ UNCHANGED urlVars
    \/ GetChoices(1, TRUE) /\ UNCHANGED rangeVars /\ UNCHANGED urlVars
    \/ Connect(1, TRUE) /\ UNCHANGED rangeVars /\ UNCHANGED urlVars

CallSpec == Init /\ [][CallNext]_vars

(***************************************************************************)
(* C1: for any two ranges A=(s1,e1) and B=(s2,e2), also when a start is    *)
(* later than its end, A.overlapSeconds(B) is                             *)
(* max(0, min(e1,e2) - max(s1,s2)); it is never negative and it is 0 when  *)
(* the ranges are disjoint or touch only at an endpoint.                   *)
(***************************************************************************)
C1_OverlapIsClampedDifference ==
    rpc = "overlapSeconds" =>
        /\ secs = Max(0, Min(r1[2], r2[2]) - Max(r1[1], r2[1]))
        /\ secs >= 0
        /\ (r1[2] <= r2[1] \/ r2[2] <= r1[1]) => secs = 0

\* overlapSeconds has been applied to a range whose start is later than its
\* end and a well-ordered range that reaches into it
C1_Witness ==
    /\ rpc = "overlapSeconds"
    /\ r1[1] > r1[2]
    /\ r2[1] < r2[2]
    /\ Min(r1[2], r2[2]) < Max(r1[1], r2[1])
    /\ secs = 0

(***************************************************************************)
(* C2: for every calendar day D, the full-day range R = fromDate(D)        *)
(* compared with itself yields R.overlapSeconds(R) = 86400 and             *)
(* R.overlapsWith(R) = true.                                               *)
(***************************************************************************)
C2_FullDaySelfOverlapIs86400 ==
    (day1 # NoDate /\ r2 = r1) =>
        /\ rpc = "overlapSeconds" => secs = 86400
        /\ rpc = "overlapsWith" => overlaps = TRUE

(***************************************************************************)
(* C3: for every instance string, the base URL is the input with           *)
(* 'https://' prepended if it was missing, '.service-now.com' appended to  *)
(* the host exactly when the host portion contains no dot, and one         *)
(* trailing slash stripped -- also for inputs that already carry the       *)
(* scheme or end with a slash.                                             *)
(***************************************************************************)
RECURSIVE RStrip(_)
\* s without its trailing slashes
RStrip(s) == IF EndsWith(s, SLASH) THEN RStrip(SubSeq(s, 1, Len(s) - 1)) ELSE s

RECURSIVE LStrip(_)
\* s without its leading slashes
LStrip(s) == IF StartsWith(s, SLASH) THEN LStrip(Tail(s)) ELSE s

\* s without one leading slash
LStrip1(s) == IF StartsWith(s, SLASH) THEN Tail(s) ELSE s

\* the base URL the sentence describes
NormalizedBase(inst) ==
    LET full    == IF StartsWith(inst, SCHEME) THEN inst ELSE SCHEME \o inst
        rest    == SubSeq(full, Len(SCHEME) + 1, Len(full))
        hostLen == IF Find(rest, "/") < 0 THEN Len(rest) ELSE Find(rest, "/")
        host    == SubSeq(rest, 1, hostLen)
        path    == SubSeq(rest, hostLen + 1, Len(rest))
        host2   == IF Find(host, ".") < 0 THEN host \o DOMAIN_SFX ELSE host
        joined  == SCHEME \o host2 \o path
    IN  IF EndsWith(joined, SLASH) THEN SubSeq(joined, 1, Len(joined) - 1) ELSE joined

C3_BaseUrlIsNormalized ==
    upc # "none" => baseurl = NormalizedBase(instance)

(***************************************************************************)
(* C4 as stated: url(path) is the base URL joined to the path with exactly *)
(* one '/' between them, whether or not the path starts with '/' and for   *)
(* every instance string the constructor accepts; the Table resource URL   *)
(* is '<base>/api/now/v1/table/<name>' with single separators.  (Stated   *)
(* for the paths that start with at most one '/'.)                         *)
(***************************************************************************)
C4_ExactlyOneSlashBetween ==
    /\ (upc = "url" /\ ~StartsWith(LStrip1(stuff), SLASH)) =>
          urlres = RStrip(baseurl) \o SLASH \o LStrip(stuff)
    /\ upc = "table" => tableurl = RStrip(baseurl) \o TABLE_API \o tablename

(***************************************************************************)
(* C4 amended: url(path) is the stored base URL, then one '/', then the    *)
(* path without its first leading '/' (if it has one); the Table resource  *)
(* URL is the stored base URL followed by '/api/now/v1/table/<name>'.      *)
(* That is exactly one '/' between them when the stored base URL does not  *)
(* end in '/' and the path does not start with '//'.                       *)
(***************************************************************************)
C4_OneSlashInsertedOrKept ==
    /\ upc = "url" =>
          /\ urlres = baseurl \o SLASH \o LStrip1(stuff)
          /\ (~EndsWith(baseurl, SLASH) /\ ~StartsWith(LStrip1(stuff), SLASH))
                => urlres = RStrip(baseurl) \o SLASH \o LStrip(stuff)
    /\ upc = "table" => tableurl = baseurl \o TABLE_API \o tablename

\* url() has been given a path that starts with '/', on a connection whose
\* instance string carried the scheme and a trailing slash
C4_Witness ==
    /\ upc = "url"
    /\ StartsWith(stuff, SLASH)
    /\ StartsWith(instance, SCHEME)
    /\ EndsWith(instance, SLASH)
    /\ ~EndsWith(baseurl, SLASH)
    /\ urlres = baseurl \o stuff

(***************************************************************************)
(* C5 as stated: Table.get has exactly three outcomes determined by the    *)
(* response status: 404 returns None, 401 raises ServiceNowError carrying  *)
(* the response body, and every other status returns the 'result' member   *)
(* of the decoded response; no other status raises ServiceNowError.        *)
(***************************************************************************)
C5_ThreeOutcomesByStatus ==
    (call.op = "get" /\ wire.completed) =>
        LET resp == wire.response
        IN  /\ resp.status = 401 => outcome = Raise("ServiceNowError", resp.body)
            /\ resp.status = 404 => outcome = ReturnNone
            /\ resp.status \notin {401, 404} =>
                  /\ outcome.kind = "return"
                  /\ outcome.vtype = "mapping"
                  /\ resp.body.hasResult
                  /\ outcome.mapping = resp.body.mapping
            /\ outcome.error = "ServiceNowError" => resp.status = 401

(***************************************************************************)
(* C5 amended: 404 returns None, 401 raises ServiceNowError carrying the   *)
(* response body, and every other status returns the 'result' member of    *)
(* the decoded response when it has one and fails with a KeyError when it  *)
(* has none; only 401 raises ServiceNowError.                              *)
(***************************************************************************)
C5_OutcomesByStatusAndResult ==
    (call.op = "get" /\ wire.completed) =>
        LET resp == wire.response
        IN  /\ resp.status = 401 => outcome = Raise("ServiceNowError", resp.body)
            /\ resp.status = 404 => outcome = ReturnNone
            /\ (resp.status \notin {401, 404} /\ resp.body.hasResult) =>
                  outcome = ReturnMapping(resp.body.mapping)
            /\ (resp.status \notin {401, 404} /\ ~resp.body.hasResult) =>
                  outcome = Raise("KeyError", ErrorBody)
            /\ outcome.error = "ServiceNowError" => resp.status = 401

\* get() has met a status other than 401 and 404 whose body has no 'result'
C5_Witness ==
    /\ call.op = "get" /\ wire.completed
    /\ wire.response.status = 500
    /\ ~wire.response.body.hasResult
    /\ outcome.kind = "raise" /\ outcome.error = "KeyError"

(***************************************************************************)
(* C6: Table.insert raises ServiceNowError exactly when the status is      *)
(* outside 200..299; inside 200..299 it returns the scalar 'sys_id' of the *)
(* result when fields is omitted (asking for sysparm_fields='sys_id'), and *)
(* the decoded result mapping when fields is given, a sequence of field    *)
(* names being sent comma-joined as sysparm_fields.                        *)
(***************************************************************************)
C6_InsertReturnsByFields ==
    (call.op = "insert" /\ wire.completed) =>
        LET resp == wire.response
        IN  /\ (outcome.kind = "raise" /\ outcome.error = "ServiceNowError")
                  <=> ~Is2xx(resp.status)
            /\ (Is2xx(resp.status) /\ call.fields = FieldsNone) =>
                  /\ outcome = ReturnScalar(Lookup(resp.body.mapping, S_sys_id))
                  /\ lastRequest.params = {<<"sysparm_fields", S_sys_id>>}
            /\ (Is2xx(resp.status) /\ call.fields # FieldsNone) =>
                  outcome = ReturnMapping(resp.body.mapping)
            /\ call.fields.kind = "seq" =>
                  lastRequest.params = {<<"sysparm_fields", Join(S_comma, call.fields.seq)>>}

(***************************************************************************)
(* C7: Query.run() never raises on a bad response status: for every status *)
(* other than 200 (other 2xx statuses, 401 and 404 included) it returns an *)
(* empty sequence, and for status 200 the decoded 'result' list; only the  *)
(* builder parameters that are set are sent as request parameters.         *)
(***************************************************************************)
C7_RunNeverRaisesOnStatus ==
    (call.op = "run" /\ wire.completed) =>
        LET resp == wire.response
            q    == call.query
        IN  /\ outcome.kind = "return"
            /\ resp.status # 200 => outcome = ReturnList(<<>>)
            /\ resp.status = 200 => outcome = ReturnList(resp.body.list)
            /\ lastRequest.hasParams
            /\ \A p \in lastRequest.params :
                  \/ p[1] = "sysparm_limit"  /\ q.limit.some  /\ p[2] = q.limit.s
                  \/ p[1] = "sysparm_fields" /\ q.fields.some /\ p[2] = q.fields.s
                  \/ p[1] = "sysparm_query"  /\ q.query.some  /\ p[2] = q.query.s
                  \/ /\ p[1] = "sysparm_exclude_reference_link"
                     /\ q.exclude_ref_links.some /\ p[2] = q.exclude_ref_links.s

\* run() has met a 2xx status other than 200 whose body carries records, with
\* a builder that has a query and fields but no limit
C7_Witness ==
    /\ call.op = "run" /\ wire.completed
    /\ wire.response.status = 201
    /\ wire.response.body.list # <<>>
    /\ outcome = ReturnList(<<>>)
    /\ TruthyStr(call.query.query) /\ TruthyStr(call.query.fields)
    /\ ~call.query.limit.some
    /\ Cardinality(lastRequest.params) = 3

(***************************************************************************)
(* C8: Table.getChoices(element, inactive) returns a mapping from choice   *)
(* value to label that excludes inactive entries unless they are           *)
(* requested: with inactive=false no record whose 'inactive' field is      *)
(* 'true' appears in it, and with inactive=true every returned record      *)
(* appears.                                                                *)
(***************************************************************************)
DistinctValues(recs) ==
    \A i, j \in 1..Len(recs) :
        i # j => Lookup(recs[i], S_value) # Lookup(recs[j], S_value)

AppearsIn(rec, m) == <<Lookup(rec, S_value), Lookup(rec, S_label)>> \in m

C8_InactiveExcludedUnlessRequested ==
    (call.op = "getChoices" /\ wire.completed /\ wire.response.status = 200
        /\ outcome.kind = "return" /\ DistinctValues(wire.response.body.list)) =>
        LET recs == wire.response.body.list
        IN  \A i \in 1..Len(recs) :
              /\ (~call.flag /\ Lookup(recs[i], S_inactive) = S_true)
                    => ~AppearsIn(recs[i], outcome.mapping)
              /\ call.flag => AppearsIn(recs[i], outcome.mapping)

(***************************************************************************)
(* C9: when the choice-list query yields no entries for the mapping (no    *)
(* records, or a non-200 response that run() turns into an empty           *)
(* sequence), Table.getChoices fails with an assertion failure and with no *)
(* other kind of error.                                                    *)
(***************************************************************************)
C9_EmptyChoicesFailAssertion ==
    (call.op = "getChoices" /\ wire.completed
        /\ (wire.response.status # 200 \/ wire.response.body.list = <<>>)) =>
        /\ outcome.kind = "raise"
        /\ outcome.error = "AssertionError"

(***************************************************************************)
(* C10: over any sequence of requests through one connection, the cookie   *)
(* sent with a request is the JSESSIONID of the most recent earlier        *)
(* response that carried one, and none is sent if no earlier response      *)
(* carried one; a response without a JSESSIONID leaves the stored cookie   *)
(* unchanged; after each completed request lastRequest and lastResponse    *)
(* are the request and response of that same call.                         *)
(***************************************************************************)
RECURSIVE LastCarried(_)
\* the JSESSIONID of the latest response in seq that carried one, or None
LastCarried(seq) ==
    IF seq = <<>> THEN None
    ELSE IF seq[Len(seq)] # None THEN seq[Len(seq)]
    ELSE LastCarried(SubSeq(seq, 1, Len(seq) - 1))

C10_SessionCookieFollowsResponses ==
    call.op # "none" =>
        LET earlier == IF wire.completed THEN SubSeq(served, 1, Len(served) - 1)
                                         ELSE served
        IN  /\ wire.cookie = LastCarried(earlier)
            /\ (wire.completed /\ wire.response.cookie = None) => cookies = wire.cookie
            /\ cookies = LastCarried(served)
            /\ lastRequest = wire.request
            /\ wire.completed => lastResponse = wire.response

\* a third request has been sent with the cookie of the first response, the
\* second response having carried none, and its own response carries another
C10_Witness ==
    /\ Len(served) = 3 /\ wire.completed
    /\ served[1] \in SessionIds /\ served[2] = None /\ served[3] \in SessionIds
    /\ served[3] # served[1]
    /\ wire.cookie = served[1]
    /\ cookies = served[3]
    /\ lastResponse.cookie = served[3]

====
